---- MODULE Spec2Model ----
(***************************************************************************)
(* State-machine model of src/gui_viewer.py (rswall wallpaper theme        *)
(* picker): the WallpaperPicker window, its navigation and refresh         *)
(* handlers, the background apply workers and the callbacks they post to   *)
(* the Tk event loop.                                                      *)
(*                                                                         *)
(* Text is modelled as sequences of one-character strings, so that         *)
(* formatting, truncation, sorting and file writes act on characters.      *)
(***************************************************************************)
EXTENDS Integers, Sequences, FiniteSets, TLC

VARIABLES
    phase,          \* "startup" (main not yet run), "running" (mainloop), "exited"
    exit_code,      \* argument of sys.exit, -1 while the process runs
    wallpapers,     \* self.wallpapers: sorted sequence of file names in wallpaper_dir
    current_index,  \* self.current_index
    status_label,   \* text of self.status_label
    current_photo,  \* self.current_photo shown by self.image_label
    info_label,     \* text of self.info_label
    counter_label,  \* text of self.counter_label
    apply_btn,      \* state of self.apply_btn: "normal" or "disabled"
    dialog,         \* TRUE while the modal messagebox.showwarning is open
    threads,        \* the threading.Thread workers started by apply_theme
    after_queue,    \* callbacks registered with root.after(0, ...), oldest first
    conf_file,      \* bytes of /tmp/rswall_gui_hyprpaper.conf
    daemons,        \* hyprpaper processes alive, named by the worker that launched them
    last_event,     \* the input handler whose run produced this state and what its
                    \* render met; none when a worker step or a callback did
    env             \* the external command or file that raises when used, or "ok"

vars == <<phase, exit_code, wallpapers, current_index, status_label,
          current_photo, info_label, counter_label, apply_btn, dialog,
          threads, after_queue, conf_file, daemons, last_event, env>>

ui_vars == <<wallpapers, current_index, status_label, current_photo,
             info_label, counter_label, apply_btn, dialog>>

(***************************************************************************)
(* Bounds of the model.                                                    *)
(***************************************************************************)
\* number of apply workers started in one run
MaxApplies == 2
\* largest image width and height explored by the scale-to-fit specification
MaxDim == 16

(***************************************************************************)
(* Text helpers.                                                           *)
(***************************************************************************)
\* the characters used by the model, in code-point order
AsciiOrder ==
    <<"\n"," ",",",".","/","0","1","2","3","4","5","6","7","8","9","=",
      "B","G","J","P","_",
      "a","b","c","d","e","f","g","h","i","j","l","m","n","o","p","r","s","t",
      "u","w","x">>

CodePoints ==
    [c \in {AsciiOrder[i] : i \in 1..Len(AsciiOrder)} |->
        CHOOSE i \in 1..Len(AsciiOrder) : AsciiOrder[i] = c]

\* ord(c), up to the order of the characters
Ord(c) == CodePoints[c]

Min(a, b) == IF a < b THEN a ELSE b

\* s[:n]
Take(s, n) == SubSeq(s, 1, Min(n, Len(s)))

\* s.endswith(suffix)
EndsWith(s, suffix) ==
    /\ Len(s) >= Len(suffix)
    /\ SubSeq(s, Len(s) - Len(suffix) + 1, Len(s)) = suffix

Digits == <<"0","1","2","3","4","5","6","7","8","9">>

\* str(n) for n >= 0
RECURSIVE ToStr(_)
ToStr(n) ==
    IF n < 10 THEN <<Digits[n + 1]>>
    ELSE ToStr(n \div 10) \o <<Digits[(n % 10) + 1]>>

\* a < b for str: lexicographic by code point, a proper prefix first
RECURSIVE StrLess(_, _)
StrLess(a, b) ==
    IF b = <<>> THEN FALSE
    ELSE IF a = <<>> THEN TRUE
    ELSE IF Head(a) = Head(b) THEN StrLess(Tail(a), Tail(b))
    ELSE Ord(Head(a)) < Ord(Head(b))

\* list.sort() of a list of distinct paths of one directory
RECURSIVE SortPaths(_)
SortPaths(S) ==
    IF S = {} THEN <<>>
    ELSE LET m == CHOOSE x \in S : \A y \in S \ {x} : StrLess(x, y)
         IN <<m>> \o SortPaths(S \ {m})

(***************************************************************************)
(* The environment: the home directory, the wallpaper directory and the    *)
(* images in it.                                                           *)
(***************************************************************************)
Home == <<"/","h">>

wallpaper_dir ==
    Home \o <<"/","P","i","c","t","u","r","e","s","/","w","a","l","l","p","a","p","a","e","r">>

\* str(wallpaper_dir / name)
PathStr(name) == wallpaper_dir \o <<"/">> \o name

\* directory entries the scans may meet
Entries ==
    { [name |-> <<"a",".","j","p","g">>,     kind |-> "file"],
      [name |-> <<"B","b",".","p","n","g">>, kind |-> "file"],
      [name |-> <<"c",".","t","x","t">>,     kind |-> "file"],
      [name |-> <<"d",".","J","P","G">>,     kind |-> "file"],
      [name |-> <<"e",".","g","i","f">>,     kind |-> "dir"] }

Entry(name) == CHOOSE e \in Entries : e.name = name

Dir(E) == [exists |-> TRUE, entries |-> E]
NoDir == [exists |-> FALSE, entries |-> {}]

\* wallpaper_dir at the time of a scan: absent, or present with some entries
AllDirStates == {NoDir} \cup {Dir(E) : E \in SUBSET Entries}

\* the directory states met by the scans of the full specification
DirStates ==
    { NoDir,
      Dir({Entry(<<"a",".","j","p","g">>), Entry(<<"B","b",".","p","n","g">>),
           Entry(<<"d",".","J","P","G">>)}) }

Extensions ==
    << <<".","j","p","g">>, <<".","j","p","e","g">>, <<".","p","n","g">>,
       <<".","w","e","b","p">>, <<".","g","i","f">>, <<".","b","m","p">> >>

\* wallpaper_dir.glob('*' + ext): every entry whose name ends with ext
Glob(dir, ext) == {e.name : e \in {x \in dir.entries : EndsWith(x.name, ext)}}

\* the list load_wallpapers builds from the directory
ScanWallpapers(dir) ==
    IF dir.exists
    THEN SortPaths(UNION {Glob(dir, Extensions[i]) : i \in 1..Len(Extensions)})
    ELSE <<>>

\* the scans of every directory state, computed once
Scanned == [dir \in AllDirStates |-> ScanWallpapers(dir)]

(***************************************************************************)
(* Preview renderer.                                                       *)
(***************************************************************************)
display_width == 1000
display_height == 600

\* int(x) of the float quotient num/den computed through img_ratio: the
\* exact floor, or one less when the exact quotient is a whole number and
\* the two float roundings fall just below it (11x15 gives 439, not 440)
IntOfQuot(num, den) ==
    {num \div den} \cup (IF num % den = 0 THEN {(num \div den) - 1} ELSE {})

\* the renderer choosing the clamped side by orientation, not by ratio
FitSizesByOrientation(w, h) ==
    IF w >= h
    THEN {<<display_width, nh>> : nh \in IntOfQuot(display_width * h, w)}
    ELSE {<<nw, display_height>> : nw \in IntOfQuot(display_height * w, h)}

\* the (new_width, new_height) pairs the renderer can compute for an image
FitSizes(w, h) ==
    IF w * display_height > h * display_width
    THEN {<<display_width, nh>> : nh \in IntOfQuot(display_width * h, w)}
    ELSE {<<nw, display_height>> : nw \in IntOfQuot(display_height * w, h)}

NoPhoto == [path |-> <<>>, src |-> <<0, 0>>, size |-> <<0, 0>>]

Label(fmt, args) == [fmt |-> fmt, args |-> args]

\* results of Image.open + resize: a decode error or the image's size
DecodeError == [ok |-> FALSE, width |-> 0, height |-> 0]
Decoded(w, h) == [ok |-> TRUE, width |-> w, height |-> h]

\* sizes of the images met by the navigation specification: one that fits
\* and one so wide that its preview height is 0 and resize raises
ImageSizes == {<<3, 1>>, <<2001, 1>>}

AllDecodeResults == {DecodeError} \cup {Decoded(s[1], s[2]) : s \in ImageSizes}

\* decode results met by the full specification
DecodeResults == {Decoded(3, 1)}

\* the choices display_current_wallpaper can meet: the decode result and the
\* size computed for it
RenderInputs(results) ==
    {[img |-> r, size |-> <<0, 0>>] : r \in {x \in results : ~x.ok}}
        \cup UNION {{[img |-> r, size |-> s] : s \in FitSizes(r.width, r.height)}
                        : r \in {x \in results : x.ok}}

\* display_current_wallpaper showing the index itself as the position
DisplayCurrentWallpaperZeroBased(ui, wps, idx, inp) ==
    IF wps = <<>> THEN ui
    ELSE IF ~inp.img.ok
    THEN [ui EXCEPT !.status = Label("Error loading image: {}",
                                     <<<<"c","a","n","n","o","t">>>>)]
    ELSE IF inp.size[1] = 0 \/ inp.size[2] = 0
    THEN [ui EXCEPT !.status = Label("Error loading image: {}",
                                     <<<<"s","i","z","e">>>>)]
    ELSE [ui EXCEPT
            !.photo = [path |-> wps[idx + 1],
                       src |-> <<inp.img.width, inp.img.height>>,
                       size |-> inp.size],
            !.info = Label("{} ({}x{})",
                           <<wps[idx + 1], ToStr(inp.size[1]), ToStr(inp.size[2])>>),
            !.counter = Label("{}/{}", <<ToStr(idx), ToStr(Len(wps))>>)]

\* display_current_wallpaper: the widgets after the call, from the widgets
\* before it (ui), the list, the index and the input met
DisplayCurrentWallpaper(ui, wps, idx, inp) ==
    IF wps = <<>> THEN ui
    ELSE IF ~inp.img.ok
    THEN [ui EXCEPT !.status = Label("Error loading image: {}",
                                     <<<<"c","a","n","n","o","t">>>>)]
    ELSE IF inp.size[1] = 0 \/ inp.size[2] = 0
    THEN [ui EXCEPT !.status = Label("Error loading image: {}",
                                     <<<<"s","i","z","e">>>>)]
    ELSE [ui EXCEPT
            !.photo = [path |-> wps[idx + 1],
                       src |-> <<inp.img.width, inp.img.height>>,
                       size |-> inp.size],
            !.info = Label("{} ({}x{})",
                           <<wps[idx + 1], ToStr(inp.size[1]), ToStr(inp.size[2])>>),
            !.counter = Label("{}/{}", <<ToStr(idx + 1), ToStr(Len(wps))>>)]

\* the widgets display_current_wallpaper reads and writes
Widgets ==
    [status |-> status_label, photo |-> current_photo,
     info |-> info_label, counter |-> counter_label]

SetWidgets(ui) ==
    /\ status_label' = ui.status
    /\ current_photo' = ui.photo
    /\ info_label' = ui.info
    /\ counter_label' = ui.counter

(***************************************************************************)
(* load_wallpapers                                                         *)
(***************************************************************************)
\* load_wallpapers without the reset of current_index
LoadWallpapersKeepIndex(dir, inp) ==
    LET wps == Scanned[dir]
        loading == [Widgets EXCEPT !.status = Label("Loading wallpapers...", <<>>)]
    IN /\ wallpapers' = wps
       /\ current_index' = current_index
       /\ dialog' = (dialog \/ wps = <<>>)
       /\ SetWidgets([DisplayCurrentWallpaper(loading, wps, 0, inp) EXCEPT
             !.status = IF wps = <<>> THEN Label("No wallpapers found", <<>>)
                        ELSE Label("Loaded {} wallpapers", <<ToStr(Len(wps))>>)])

\* load_wallpapers without the warning dialog
LoadWallpapersNoWarning(dir, inp) ==
    LET wps == Scanned[dir]
        loading == [Widgets EXCEPT !.status = Label("Loading wallpapers...", <<>>)]
    IN /\ wallpapers' = wps
       /\ current_index' = IF wps # <<>> THEN 0 ELSE current_index
       /\ dialog' = dialog
       /\ SetWidgets([DisplayCurrentWallpaper(loading, wps, 0, inp) EXCEPT
             !.status = IF wps = <<>> THEN Label("No wallpapers found", <<>>)
                        ELSE Label("Loaded {} wallpapers", <<ToStr(Len(wps))>>)])

\* load_wallpapers extending the list it has instead of rebuilding it
LoadWallpapersAppend(dir, inp) ==
    LET wps == wallpapers \o Scanned[dir]
        loading == [Widgets EXCEPT !.status = Label("Loading wallpapers...", <<>>)]
    IN /\ wallpapers' = wps
       /\ current_index' = IF wps # <<>> THEN 0 ELSE current_index
       /\ dialog' = (dialog \/ wps = <<>>)
       /\ SetWidgets([DisplayCurrentWallpaper(loading, wps, 0, inp) EXCEPT
             !.status = IF wps = <<>> THEN Label("No wallpapers found", <<>>)
                        ELSE Label("Loaded {} wallpapers", <<ToStr(Len(wps))>>)])

LoadWallpapers(dir, inp) ==
    LET wps == Scanned[dir]
        loading == [Widgets EXCEPT !.status = Label("Loading wallpapers...", <<>>)]
    IN /\ wallpapers' = wps
       /\ IF wps # <<>>
          THEN LET shown == DisplayCurrentWallpaper(loading, wps, 0, inp)
               IN /\ current_index' = 0
                  /\ SetWidgets([shown EXCEPT
                        !.status = Label("Loaded {} wallpapers", <<ToStr(Len(wps))>>)])
                  /\ dialog' = dialog
          ELSE /\ current_index' = current_index
               /\ SetWidgets([loading EXCEPT
                        !.status = Label("No wallpapers found", <<>>)])
               /\ dialog' = TRUE

\* what the render of a handler met: "ok", "error" (the except branch ran)
Shown(inp) ==
    IF inp.img.ok /\ inp.size[1] # 0 /\ inp.size[2] # 0 THEN "ok" ELSE "error"

\* an input event that scanned wallpaper_dir and met the listing dir
ScanEvent(name, shown, dir) == [name |-> name, shown |-> shown, dir |-> dir]

\* an input event that did not scan
Event(name, shown) == ScanEvent(name, shown, NoDir)

NoEvent == Event("none", "none")

(***************************************************************************)
(* main and the constructor                                                *)
(***************************************************************************)
\* what is wrong on this machine: nothing; the rswall binary does not exist
\* when main checks for it ("missing"); or one of these raises OSError when
\* used: the rswall binary (removed or not executable after startup), pkill,
\* the configuration file, hyprpaper
EnvFaults == {"ok", "missing", "rswall", "pkill", "conf", "hyprpaper"}

\* not rswall_bin.exists()
BinaryMissing == env = "missing"

InitOn(faults) ==
    /\ phase = "startup"
    /\ exit_code = -1
    /\ wallpapers = <<>>
    /\ current_index = 0
    /\ status_label = Label("Ready", <<>>)
    /\ current_photo = NoPhoto
    /\ info_label = Label("No image selected", <<>>)
    /\ counter_label = Label("0/0", <<>>)
    /\ apply_btn = "normal"
    /\ dialog = FALSE
    /\ threads = <<>>
    /\ after_queue = <<>>
    /\ conf_file = <<>>
    /\ daemons = {}
    /\ last_event = NoEvent
    /\ env \in faults

Init == InitOn(EnvFaults)

\* main() leaving with exit code 0 when the binary is missing
MainMissingBinaryExitZero ==
    /\ phase = "startup"
    /\ BinaryMissing
    /\ phase' = "exited"
    /\ exit_code' = 0
    /\ last_event' = Event("exit", "none")
    /\ UNCHANGED <<ui_vars, threads, after_queue, conf_file, daemons, env>>

\* main() when the rswall binary is missing: sys.exit(1)
MainMissingBinary ==
    /\ phase = "startup"
    /\ BinaryMissing
    /\ phase' = "exited"
    /\ exit_code' = 1
    /\ last_event' = Event("exit", "none")
    /\ UNCHANGED <<ui_vars, threads, after_queue, conf_file, daemons, env>>

\* main() when the binary exists: the window is built and the first scan runs
MainStartOn(dirs, results) ==
    /\ phase = "startup"
    /\ ~BinaryMissing
    /\ phase' = "running"
    /\ \E dir \in dirs, inp \in RenderInputs(results) :
          /\ LoadWallpapers(dir, inp)
          /\ last_event' = ScanEvent("start",
                IF Scanned[dir] = <<>> THEN "none" ELSE Shown(inp), dir)
    /\ UNCHANGED <<exit_code, apply_btn, threads, after_queue, conf_file,
                   daemons, env>>

MainStart == MainStartOn(DirStates, DecodeResults)

\* the UI thread takes an input event: the mainloop runs and no modal dialog
\* holds the grab
UiReady == phase = "running" /\ ~dialog

\* the warning dialog is dismissed
CloseDialog ==
    /\ phase = "running"
    /\ dialog
    /\ dialog' = FALSE
    /\ UNCHANGED <<phase, exit_code, wallpapers, current_index, status_label,
                   current_photo, info_label, counter_label, apply_btn,
                   threads, after_queue, conf_file, daemons, env>>
    /\ last_event' = NoEvent

\* load_wallpapers from the Refresh button or key "r"
RefreshOn(dirs, results) ==
    /\ UiReady
    /\ \E dir \in dirs, inp \in RenderInputs(results) :
          /\ LoadWallpapers(dir, inp)
          /\ last_event' = ScanEvent("refresh",
                IF Scanned[dir] = <<>> THEN "none" ELSE Shown(inp), dir)
    /\ UNCHANGED <<phase, exit_code, apply_btn, threads, after_queue, conf_file,
                   daemons, env>>

Refresh == RefreshOn(DirStates, DecodeResults)

(***************************************************************************)
(* Navigation                                                              *)
(***************************************************************************)
\* prev_wallpaper wrapping around from the first wallpaper to the last
PrevOnWrap(results) ==
    /\ UiReady
    /\ IF wallpapers # <<>>
       THEN \E inp \in RenderInputs(results) :
               LET to == IF current_index > 0 THEN current_index - 1
                         ELSE Len(wallpapers) - 1
               IN /\ current_index' = to
                  /\ SetWidgets(DisplayCurrentWallpaper(Widgets, wallpapers, to, inp))
                  /\ last_event' = Event("prev", Shown(inp))
       ELSE /\ UNCHANGED <<current_index, status_label, current_photo,
                           info_label, counter_label>>
            /\ last_event' = Event("prev", "none")
    /\ UNCHANGED <<phase, exit_code, wallpapers, apply_btn, dialog,
                   threads, after_queue, conf_file, daemons, env>>

\* prev_wallpaper: Previous button or Left key
PrevOn(results) ==
    /\ UiReady
    /\ IF wallpapers # <<>> /\ current_index > 0
       THEN \E inp \in RenderInputs(results) :
               /\ current_index' = current_index - 1
               /\ SetWidgets(DisplayCurrentWallpaper(Widgets, wallpapers,
                                                     current_index - 1, inp))
               /\ last_event' = Event("prev", Shown(inp))
       ELSE /\ UNCHANGED <<current_index, status_label, current_photo,
                           info_label, counter_label>>
            /\ last_event' = Event("prev", "none")
    /\ UNCHANGED <<phase, exit_code, wallpapers, apply_btn, dialog,
                   threads, after_queue, conf_file, daemons, env>>

PrevWallpaper == PrevOn(DecodeResults)

\* next_wallpaper: Next button or Right key
NextOn(results) ==
    /\ UiReady
    /\ IF wallpapers # <<>> /\ current_index < Len(wallpapers) - 1
       THEN \E inp \in RenderInputs(results) :
               /\ current_index' = current_index + 1
               /\ SetWidgets(DisplayCurrentWallpaper(Widgets, wallpapers,
                                                     current_index + 1, inp))
               /\ last_event' = Event("next", Shown(inp))
       ELSE /\ UNCHANGED <<current_index, status_label, current_photo,
                           info_label, counter_label>>
            /\ last_event' = Event("next", "none")
    /\ UNCHANGED <<phase, exit_code, wallpapers, apply_btn, dialog,
                   threads, after_queue, conf_file, daemons, env>>

NextWallpaper == NextOn(DecodeResults)

(***************************************************************************)
(* apply_theme and the background worker                                   *)
(***************************************************************************)
RetCodes == {0, 1}

\* error_msg[:50] and str(e)[:50]
TruncLen == 50

LongText == [i \in 1..(TruncLen + 1) |-> "x"]

\* result.stderr of the theme generator
Stderrs == {<<>>, LongText}

UnknownError == <<"U","n","k","n","o","w","n"," ","e","r","r","o","r">>

\* str(e) of the OSError raised by subprocess.run
ExcText == <<"N","o"," ","s","u","c","h"," ","f","i","l","e">>

config_path ==
    <<"/","t","m","p","/","r","s","w","a","l","l","_","g","u","i","_",
      "h","y","p","r","p","a","p","e","r",".","c","o","n","f">>

\* the configuration without its line breaks
ConfigContentOneLine(name) ==
    <<"p","r","e","l","o","a","d"," ","="," ">> \o PathStr(name)
        \o <<"w","a","l","l","p","a","p","e","r"," ","="," ",",">>
        \o PathStr(name)

\* f"preload = {wallpaper_path}\nwallpaper = ,{wallpaper_path}\n"
ConfigContent(name) ==
    <<"p","r","e","l","o","a","d"," ","="," ">> \o PathStr(name) \o <<"\n">>
        \o <<"w","a","l","l","p","a","p","e","r"," ","="," ",",">>
        \o PathStr(name) \o <<"\n">>

\* ["hyprpaper", "-c", config_path]
HyprpaperArgv ==
    << <<"h","y","p","r","p","a","p","e","r">>, <<"-","c">>, config_path >>

\* a write of data at offset 0 of a file opened without O_APPEND: bytes
\* of the file beyond the data stay
WriteAtStart(file, data) == data \o SubSeq(file, Len(data) + 1, Len(file))

NoText == Label("", <<>>)

SuccessText == Label("OK Theme applied successfully!", <<>>)

\* f"X Error: {msg[:50]}..."
ErrorText(msg) == Label("X Error: {}...", <<Take(msg, TruncLen)>>)

\* the thread of a worker has not yet returned
Running(t) == t.pc # "done"

\* worker i, or a callback it posted, is still to run
InFlight(i) ==
    \/ Running(threads[i])
    \/ \E k \in 1..Len(after_queue) : after_queue[k].by = i

NewThread(name, overlapped) ==
    [pc |-> "rswall", path |-> name, outcome |-> "pending", rc |-> 0,
     overlapped |-> overlapped, rswall_arg |-> <<>>, killed |-> FALSE,
     wrote |-> <<>>, launched |-> <<>>, printed |-> FALSE]

\* apply_theme leaving the apply control enabled
ApplyThemeNoDisable ==
    /\ UiReady
    /\ IF wallpapers = <<>>
       THEN UNCHANGED <<status_label, threads>>
       ELSE /\ Len(threads) < MaxApplies
            /\ status_label' = Label("Applying theme...", <<>>)
            /\ threads' = Append(threads,
                    NewThread(wallpapers[current_index + 1],
                              \E j \in 1..Len(threads) : InFlight(j)))
    /\ last_event' = Event("apply", "none")
    /\ UNCHANGED <<phase, exit_code, wallpapers, current_index, current_photo,
                   info_label, counter_label, dialog, after_queue, conf_file,
                   daemons, env, apply_btn>>

\* apply_theme disabling the control before it looks at the list
ApplyThemeDisablesOnEmpty ==
    /\ UiReady
    /\ apply_btn' = "disabled"
    /\ IF wallpapers = <<>>
       THEN /\ status_label' = Label("Applying theme...", <<>>)
            /\ threads' = threads
       ELSE /\ Len(threads) < MaxApplies
            /\ status_label' = Label("Applying theme...", <<>>)
            /\ threads' = Append(threads,
                    NewThread(wallpapers[current_index + 1],
                              \E j \in 1..Len(threads) : InFlight(j)))
    /\ last_event' = Event("apply", "none")
    /\ UNCHANGED <<phase, exit_code, wallpapers, current_index, current_photo,
                   info_label, counter_label, dialog, after_queue, conf_file,
                   daemons, env>>

\* apply_theme
ApplyTheme ==
    /\ UiReady
    /\ IF wallpapers = <<>>
       THEN UNCHANGED <<status_label, apply_btn, threads>>
       ELSE /\ Len(threads) < MaxApplies
            /\ status_label' = Label("Applying theme...", <<>>)
            /\ apply_btn' = "disabled"
            /\ threads' = Append(threads,
                    NewThread(wallpapers[current_index + 1],
                              \E j \in 1..Len(threads) : InFlight(j)))
    /\ last_event' = Event("apply", "none")
    /\ UNCHANGED <<phase, exit_code, wallpapers, current_index, current_photo,
                   info_label, counter_label, dialog, after_queue, conf_file,
                   daemons, env>>

\* a click on the Apply Theme button, which a disabled button ignores
ApplyButton == apply_btn = "normal" /\ ApplyTheme

\* the Return and space key bindings of the root window
ApplyKey == ApplyTheme

\* root.after(0, callback) from worker i
Callback(kind, i, text) == [kind |-> kind, by |-> i, text |-> text]

\* the worker going on to _set_wallpaper whatever the exit code
RunRswallIgnoreCode(i) ==
    /\ threads[i].pc = "rswall"
    /\ \E rc \in RetCodes :
          threads' = [threads EXCEPT
              ![i].outcome = "returned", ![i].rc = rc, ![i].pc = "pkill",
              ![i].rswall_arg = PathStr(threads[i].path)]
    /\ last_event' = NoEvent
    /\ UNCHANGED <<phase, exit_code, ui_vars, after_queue, conf_file, daemons, env>>

\* subprocess.run([rswall, str(wallpaper_path), "--reload"]) with the path the
\* thread was started with, and the status callback of a
\* non-zero exit code or of the exception
RunRswall(i) ==
    /\ threads[i].pc = "rswall"
    /\ IF env = "rswall"
       THEN /\ threads' = [threads EXCEPT
                    ![i].outcome = "raised",
                    ![i].rswall_arg = PathStr(threads[i].path),
                    ![i].pc = "except_end"]
            /\ after_queue' = Append(after_queue,
                    Callback("status_e", i, ErrorText(ExcText)))
       ELSE \E rc \in RetCodes, stderr \in Stderrs :
               LET error_msg == IF stderr # <<>> THEN stderr ELSE UnknownError
               IN IF rc = 0
                  THEN /\ stderr = <<>>
                       /\ threads' = [threads EXCEPT
                               ![i].outcome = "returned", ![i].rc = rc,
                               ![i].rswall_arg = PathStr(threads[i].path),
                               ![i].pc = "pkill"]
                       /\ after_queue' = after_queue
                  ELSE /\ threads' = [threads EXCEPT
                               ![i].outcome = "returned", ![i].rc = rc,
                               ![i].rswall_arg = PathStr(threads[i].path),
                               ![i].pc = "finally"]
                       /\ after_queue' = Append(after_queue,
                               Callback("status", i, ErrorText(error_msg)))
    /\ UNCHANGED <<phase, exit_code, ui_vars, conf_file, daemons, env>>
    /\ last_event' = NoEvent

\* _set_wallpaper raised: its except prints, it returns, and the worker
\* registers the success callback
SetWallpaperRaised(i) ==
    /\ threads' = [threads EXCEPT
            ![i].printed = TRUE, ![i].pc = "finally"]
    /\ after_queue' = Append(after_queue, Callback("status", i, SuccessText))

\* _set_wallpaper: subprocess.run(["pkill", "-x", "hyprpaper"])
Pkill(i) ==
    /\ threads[i].pc = "pkill"
    /\ IF env = "pkill"
       THEN SetWallpaperRaised(i) /\ daemons' = daemons
       ELSE /\ daemons' = {}
            /\ threads' = [threads EXCEPT ![i].killed = TRUE, ![i].pc = "open"]
            /\ after_queue' = after_queue
    /\ UNCHANGED <<phase, exit_code, ui_vars, conf_file, env>>
    /\ last_event' = NoEvent

\* _set_wallpaper going from the open to the launch without the write
OpenConfSkipsWrite(i) ==
    /\ threads[i].pc = "open"
    /\ IF env = "conf"
       THEN SetWallpaperRaised(i) /\ conf_file' = conf_file
       ELSE /\ conf_file' = <<>>
            /\ threads' = [threads EXCEPT ![i].pc = "popen"]
            /\ after_queue' = after_queue
    /\ UNCHANGED <<phase, exit_code, ui_vars, daemons, env>>
    /\ last_event' = NoEvent

\* _set_wallpaper: open(config_path, 'w') truncates the file
OpenConf(i) ==
    /\ threads[i].pc = "open"
    /\ IF env = "conf"
       THEN SetWallpaperRaised(i) /\ conf_file' = conf_file
       ELSE /\ conf_file' = <<>>
            /\ threads' = [threads EXCEPT ![i].pc = "write"]
            /\ after_queue' = after_queue
    /\ UNCHANGED <<phase, exit_code, ui_vars, daemons, env>>
    /\ last_event' = NoEvent

\* _set_wallpaper writing the configuration of the wallpaper selected at the
\* time of the write instead of the one the thread was started with
WriteConfCurrentSelection(i) ==
    LET name == IF wallpapers # <<>> THEN wallpapers[current_index + 1]
                ELSE threads[i].path
    IN /\ threads[i].pc = "write"
       /\ conf_file' = WriteAtStart(conf_file, ConfigContent(name))
       /\ threads' = [threads EXCEPT
               ![i].wrote = ConfigContent(name), ![i].pc = "popen"]
       /\ UNCHANGED <<phase, exit_code, ui_vars, after_queue, daemons, env>>
       /\ last_event' = NoEvent

\* _set_wallpaper: f.write(config_content), flushed when the with block closes f
WriteConf(i) ==
    /\ threads[i].pc = "write"
    /\ conf_file' = WriteAtStart(conf_file, ConfigContent(threads[i].path))
    /\ threads' = [threads EXCEPT
            ![i].wrote = ConfigContent(threads[i].path), ![i].pc = "popen"]
    /\ UNCHANGED <<phase, exit_code, ui_vars, after_queue, daemons, env>>
    /\ last_event' = NoEvent

\* _set_wallpaper: subprocess.Popen(["hyprpaper", "-c", config_path])
Popen(i) ==
    /\ threads[i].pc = "popen"
    /\ IF env = "hyprpaper"
       THEN SetWallpaperRaised(i) /\ daemons' = daemons
       ELSE /\ daemons' = daemons \cup {i}
            /\ threads' = [threads EXCEPT
                    ![i].launched = HyprpaperArgv, ![i].pc = "post_ok"]
            /\ after_queue' = after_queue
    /\ UNCHANGED <<phase, exit_code, ui_vars, conf_file, env>>
    /\ last_event' = NoEvent

\* the worker configuring the status label itself, from its own thread
PostOkDirect(i) ==
    /\ threads[i].pc = "post_ok"
    /\ status_label' = SuccessText
    /\ threads' = [threads EXCEPT ![i].pc = "finally"]
    /\ last_event' = NoEvent
    /\ UNCHANGED <<phase, exit_code, wallpapers, current_index, current_photo,
                   info_label, counter_label, apply_btn, dialog, after_queue,
                   conf_file, daemons, env>>

\* root.after(0, lambda: status_label.config(text="... successfully!"))
PostOk(i) ==
    /\ threads[i].pc = "post_ok"
    /\ after_queue' = Append(after_queue, Callback("status", i, SuccessText))
    /\ threads' = [threads EXCEPT ![i].pc = "finally"]
    /\ UNCHANGED <<phase, exit_code, ui_vars, conf_file, daemons, env>>
    /\ last_event' = NoEvent

\* the except block of the worker ends: Python unbinds e, which the
\* registered lambda reads when it runs
LeaveExcept(i) ==
    /\ threads[i].pc = "except_end"
    /\ threads' = [threads EXCEPT ![i].pc = "finally"]
    /\ UNCHANGED <<phase, exit_code, ui_vars, after_queue, conf_file, daemons, env>>
    /\ last_event' = NoEvent

\* the worker ending without the callback that re-enables the control
FinallyNoEnable(i) ==
    /\ threads[i].pc = "finally"
    /\ threads' = [threads EXCEPT ![i].pc = "done"]
    /\ last_event' = NoEvent
    /\ UNCHANGED <<phase, exit_code, ui_vars, after_queue, conf_file, daemons, env>>

\* finally: root.after(0, lambda: apply_btn.config(state="normal"))
Finally(i) ==
    /\ threads[i].pc = "finally"
    /\ after_queue' = Append(after_queue, Callback("enable", i, NoText))
    /\ threads' = [threads EXCEPT ![i].pc = "done"]
    /\ UNCHANGED <<phase, exit_code, ui_vars, conf_file, daemons, env>>
    /\ last_event' = NoEvent

\* the event loop runs the oldest callback registered with root.after; the
\* lambda of the except block raises NameError once e is unbound
RunAfter ==
    /\ phase = "running"
    /\ after_queue # <<>>
    /\ LET cb == Head(after_queue)
       IN /\ status_label' =
                IF cb.kind = "status" THEN cb.text
                ELSE IF cb.kind = "status_e" /\ threads[cb.by].pc = "except_end"
                THEN cb.text
                ELSE status_label
          /\ apply_btn' = IF cb.kind = "enable" THEN "normal" ELSE apply_btn
    /\ after_queue' = Tail(after_queue)
    /\ UNCHANGED <<phase, exit_code, wallpapers, current_index, current_photo,
                   info_label, counter_label, dialog, threads, conf_file,
                   daemons, env>>
    /\ last_event' = NoEvent

Worker(i) ==
    \/ RunRswall(i)
    \/ Pkill(i)
    \/ OpenConf(i)
    \/ WriteConf(i)
    \/ Popen(i)
    \/ PostOk(i)
    \/ LeaveExcept(i)
    \/ Finally(i)

Next ==
    \/ MainMissingBinary
    \/ MainStart
    \/ CloseDialog
    \/ Refresh
    \/ PrevWallpaper
    \/ NextWallpaper
    \/ ApplyButton
    \/ ApplyKey
    \/ RunAfter
    \/ \E i \in 1..Len(threads) : Worker(i)

Spec == Init /\ [][Next]_vars

\* a step of worker i, when it exists
WorkerStep(i) == i \in 1..Len(threads) /\ Worker(i)

\* every started thread is scheduled and its blocking calls return; the
\* mainloop keeps running the callbacks registered with root.after
Fairness ==
    /\ WF_vars(RunAfter)
    /\ \A i \in 1..MaxApplies : WF_vars(WorkerStep(i))

SpecLive == Init /\ [][Next]_vars /\ Fairness

(***************************************************************************)
(* The input handlers of the UI thread alone, over every listing of the   *)
(* directory and every decode result; no worker is scheduled.              *)
(***************************************************************************)
NavInit == InitOn({"ok", "missing"})

NavStart == MainStartOn(AllDirStates, AllDecodeResults)

NavRefresh == RefreshOn(AllDirStates, AllDecodeResults)

NavPrev == PrevOn(AllDecodeResults)

NavNext == NextOn(AllDecodeResults)

NextNav ==
    \/ MainMissingBinary
    \/ NavStart
    \/ CloseDialog
    \/ NavRefresh
    \/ NavPrev
    \/ NavNext
    \/ ApplyButton
    \/ ApplyKey

SpecNav == NavInit /\ [][NextNav]_vars

(***************************************************************************)
(* The preview renderer over every image size up to MaxDim x MaxDim: the   *)
(* window shows a directory of one image, which changes between refreshes. *)
(***************************************************************************)
FitDecodeResults ==
    {DecodeError} \cup {Decoded(w, h) : w \in 1..MaxDim, h \in 1..MaxDim}

FitDirStates == {Dir({Entry(<<"a",".","j","p","g">>)})}

FitStart == MainStartOn(FitDirStates, FitDecodeResults)

FitRefresh == RefreshOn(FitDirStates, FitDecodeResults)

NextFit ==
    \/ FitStart
    \/ FitRefresh

SpecFit == NavInit /\ [][NextFit]_vars

(***************************************************************************)
(* Claims                                                                  *)
(***************************************************************************)
\* the image shown: its decoded size and the size of its preview
ImgW == current_photo.src[1]
ImgH == current_photo.src[2]
NewW == current_photo.size[1]
NewH == current_photo.size[2]

\* C1: in every state reached by refresh, previous, next and apply events,
\* a non-empty wallpaper list has 0 <= current_index <= length - 1.
C1_IndexValid ==
    wallpapers # <<>> =>
        (0 <= current_index /\ current_index <= Len(wallpapers) - 1)

\* next has moved the index to the last of three wallpapers after an apply
C1_Witness ==
    /\ Len(wallpapers) = 3
    /\ current_index = 2
    /\ last_event.name = "next"
    /\ threads # <<>>

\* C2: navigation over a non-empty list never wraps around: previous at
\* index 0 and next at index length-1 leave the index, the list, the preview
\* and the labels unchanged; away from the boundary previous changes the
\* index by exactly -1 and next by exactly +1.
C2_NavigationClamped ==
    [][/\ (last_event'.name = "prev" /\ wallpapers # <<>> /\ current_index = 0)
            => UNCHANGED <<current_index, wallpapers, current_photo,
                           info_label, counter_label, status_label>>
       /\ (last_event'.name = "next" /\ wallpapers # <<>>
                /\ current_index = Len(wallpapers) - 1)
            => UNCHANGED <<current_index, wallpapers, current_photo,
                           info_label, counter_label, status_label>>
       /\ (last_event'.name = "prev" /\ wallpapers # <<>> /\ current_index > 0)
            => (current_index' = current_index - 1 /\ wallpapers' = wallpapers)
       /\ (last_event'.name = "next" /\ wallpapers # <<>>
                /\ current_index < Len(wallpapers) - 1)
            => (current_index' = current_index + 1 /\ wallpapers' = wallpapers)
      ]_vars

\* previous has run at index 0 of a non-empty list and rendered nothing
C2_Witness ==
    /\ last_event = Event("prev", "none")
    /\ Len(wallpapers) = 3
    /\ current_index = 0

DecodeFailureText(label) == label.fmt = "Error loading image: {}"

\* C7: whenever the decode of the image at the current index fails during a
\* previous, next or refresh event, then once the event is handled the status
\* line shows the decode-failure text, the previous preview is still in place
\* and the process keeps running.
C7_DecodeFailureReported ==
    [][(last_event'.name \in {"prev", "next", "refresh"}
            /\ last_event'.shown = "error")
        => /\ DecodeFailureText(status_label')
           /\ current_photo' = current_photo
           /\ phase' = "running"
      ]_vars
\* C8 as stated: for any image with width >= height the preview width equals
\* the box width (1000), for any image with height > width the preview
\* height equals the box height (600), and the aspect ratio is preserved
\* within integer rounding.
C8_FitByOrientation ==
    current_photo # NoPhoto =>
        /\ ImgW >= ImgH =>
                /\ NewW = display_width
                /\ 0 <= display_width * ImgH - NewH * ImgW
                /\ display_width * ImgH - NewH * ImgW <= ImgW
        /\ ImgH > ImgW =>
                /\ NewH = display_height
                /\ 0 <= display_height * ImgW - NewW * ImgH
                /\ display_height * ImgW - NewW * ImgH <= ImgH

\* C8 as amended: for any image whose width/height ratio exceeds 1000/600
\* the preview width equals 1000; for any other image the preview height
\* equals 600; in both cases the other side is proportional, rounded down to
\* an integer at most one pixel below the exact proportional value.
C8_FitByRatio ==
    current_photo # NoPhoto =>
        /\ ImgW * display_height > ImgH * display_width =>
                /\ NewW = display_width
                /\ 0 <= display_width * ImgH - NewH * ImgW
                /\ display_width * ImgH - NewH * ImgW <= ImgW
        /\ ImgW * display_height <= ImgH * display_width =>
                /\ NewH = display_height
                /\ 0 <= display_height * ImgW - NewW * ImgH
                /\ display_height * ImgW - NewW * ImgH <= ImgH

\* a 3x2 image, wider than tall but below the ratio of the box, is shown
\* 900x600
C8_Witness ==
    /\ current_photo.src = <<3, 2>>
    /\ current_photo.size = <<900, 600>>
\* the lines of a text, each ended by a line break; characters after the
\* last line break form one more line
RECURSIVE Lines(_)
Lines(text) ==
    IF text = <<>> THEN <<>>
    ELSE LET brk == {k \in 1..Len(text) : text[k] = "\n"}
         IN IF brk = {} THEN <<text>>
            ELSE LET k == CHOOSE x \in brk : \A y \in brk : x <= y
                 IN <<SubSeq(text, 1, k - 1)>> \o Lines(SubSeq(text, k + 1, Len(text)))

\* 'preload = <path>' and 'wallpaper = ,<path>' for the image called name
TwoLines(name) ==
    << <<"p","r","e","l","o","a","d"," ","="," ">> \o PathStr(name),
       <<"w","a","l","l","p","a","p","e","r"," ","="," ",",">> \o PathStr(name) >>

\* the status texts of a failure ("X" stands for the cross mark)
FailureText(label) == label.fmt = "X Error: {}..." /\ Len(label.args[1]) <= TruncLen

\* the status callbacks worker i has registered and the event loop has not run
StatusCallbacks(i) ==
    {after_queue[k] : k \in {x \in 1..Len(after_queue) :
        after_queue[x].by = i /\ after_queue[x].kind \in {"status", "status_e"}}}

ReturnedNonZero(t) == t.outcome = "returned" /\ t.rc # 0

ReturnedZero(t) == t.outcome = "returned" /\ t.rc = 0

\* the worker is past the status callback of its try block
Posted(t) == t.pc \in {"finally", "done"}

\* C3: a worker whose theme-generator invocation returns a non-zero exit code
\* never terminates or launches the daemon and never writes the configuration
\* file, and the status update it posts is a failure message.
C3_FailureLeavesDaemonAlone ==
    \A i \in 1..Len(threads) :
        ReturnedNonZero(threads[i]) =>
            /\ ~threads[i].killed
            /\ threads[i].wrote = <<>>
            /\ threads[i].launched = <<>>
            /\ i \notin daemons
            /\ threads[i].pc \in {"finally", "done"}
            /\ \A cb \in StatusCallbacks(i) : FailureText(cb.text)

\* a worker has returned with a non-zero exit code and empty stderr, and the
\* event loop has shown its failure text
C3_Witness ==
    \E i \in 1..Len(threads) :
        /\ ReturnedNonZero(threads[i])
        /\ threads[i].pc = "done"
        /\ ~InFlight(i)
        /\ status_label = ErrorText(UnknownError)

C6_ThrowReportsError ==
    \A i \in 1..Len(threads) :
        (threads[i].outcome = "raised" \/ threads[i].printed) =>
            \A cb \in StatusCallbacks(i) : FailureText(cb.text)

\* C9: when two workers have both written the configuration file and both
\* have finished, the file holds exactly the two-line configuration of one of
\* the two applied images, never a mixture.
C9_LastWriterWins ==
    (/\ Len(threads) = 2
     /\ \A i \in 1..2 : threads[i].pc = "done" /\ threads[i].wrote # <<>>)
        => Lines(conf_file) \in {TwoLines(threads[1].path), TwoLines(threads[2].path)}

\* C10 as stated: at every moment at which a worker is running, the apply
\* control is disabled.
C10_DisabledWhileRunning ==
    (\E i \in 1..Len(threads) : Running(threads[i])) => apply_btn = "disabled"

\* C10 as amended: as long as no apply has been triggered (through the
\* Return or space key) while an earlier worker or one of its callbacks was
\* still pending, the apply control is disabled at every moment at which a
\* worker is running, that is until it has registered its last callback.
C10_DisabledWithoutOverlap ==
    (/\ \E i \in 1..Len(threads) : Running(threads[i])
     /\ \A j \in 1..Len(threads) : ~threads[j].overlapped)
        => apply_btn = "disabled"

\* a second worker, started after the first had finished and the control was
\* enabled again, writes the file while the control is disabled
C10_Witness ==
    /\ Len(threads) = 2
    /\ ~threads[2].overlapped
    /\ threads[2].pc = "write"
    /\ apply_btn = "disabled"

\* C5: every apply that disables the apply control is eventually followed by
\* the control being enabled again, whether the worker succeeds, gets a
\* non-zero exit code or raises, when the worker's calls return and the event
\* loop keeps running the registered callbacks.
C5_EventuallyEnabled == (apply_btn = "disabled") ~> (apply_btn = "normal")

\* the control is enabled again after a worker whose subprocess.run raised
C5_Witness ==
    /\ apply_btn = "normal"
    /\ \E i \in 1..Len(threads) :
          threads[i].outcome = "raised" /\ threads[i].pc = "done" /\ ~InFlight(i)

\* C11: a background apply worker never changes the status label or the
\* apply control (nor any other widget or the list) itself: a step of a
\* worker thread leaves them alone, and every change of the status label or
\* of the apply control is made on the UI thread, by an input handler or by
\* the event loop running the oldest callback registered with root.after.
C11_WorkersPostThroughAfter ==
    [][/\ (\E i \in 1..Len(threads) : threads'[i] # threads[i])
            => UNCHANGED ui_vars
       /\ (status_label' # status_label \/ apply_btn' # apply_btn)
            => \/ last_event'.name # "none"
               \/ /\ after_queue # <<>>
                  /\ after_queue' = Tail(after_queue)
                  /\ threads' = threads
      ]_vars

\* the success status of a finished worker has been set by the event loop
C11_Witness ==
    /\ status_label = SuccessText
    /\ apply_btn = "normal"
    /\ after_queue = <<>>
    /\ \E i \in 1..Len(threads) :
          threads[i].pc = "done" /\ threads[i].launched # <<>>

\* the regular files of a listing whose name ends with one of the extensions
MatchingFiles(dir) ==
    {e.name : e \in {x \in dir.entries :
        /\ x.kind = "file"
        /\ \E k \in 1..Len(Extensions) : EndsWith(x.name, Extensions[k])}}

\* a sequence without repetition, ascending by path
SortedOnce(wps) ==
    \A a, b \in 1..Len(wps) : a < b => StrLess(wps[a], wps[b])

\* C12: after a scan (at startup or on refresh) the wallpaper list holds
\* exactly the regular files of the directory whose extension is one of
\* .jpg .jpeg .png .webp .gif .bmp, case-sensitive, each exactly once, sorted
\* ascending by path.
C12_ScanExactlyMatchingFiles ==
    last_event.name \in {"start", "refresh"} =>
        /\ {wallpapers[k] : k \in 1..Len(wallpapers)} = MatchingFiles(last_event.dir)
        /\ SortedOnce(wallpapers)

\* C13: for an empty or non-existent wallpaper directory a scan produces an
\* empty list, raises no error (the process keeps running), sets the status
\* 'No wallpapers found', opens the warning dialog and renders nothing: the
\* preview, the info label and the counter label stay as they were.
C13_EmptyScanWarns ==
    [][(/\ last_event'.name \in {"start", "refresh"}
        /\ (~last_event'.dir.exists \/ last_event'.dir.entries = {}))
        => /\ wallpapers' = <<>>
           /\ phase' = "running"
           /\ status_label' = Label("No wallpapers found", <<>>)
           /\ dialog'
           /\ UNCHANGED <<current_photo, info_label, counter_label, current_index>>
      ]_vars

\* a refresh has met a removed directory while a preview was shown
C13_Witness ==
    /\ last_event.name = "refresh"
    /\ ~last_event.dir.exists
    /\ wallpapers = <<>>
    /\ dialog
    /\ current_photo # NoPhoto

\* C14: if the theme-generator binary does not exist at startup the process
\* exits with code 1 and nothing else has happened (no window state, no scan,
\* no dialog, no worker, no callback, no file, no daemon); if it exists,
\* startup builds the window and scans the directory.
C14_MissingBinaryExits ==
    [][phase = "startup" =>
        IF BinaryMissing
        THEN /\ phase' = "exited"
             /\ exit_code' = 1
             /\ last_event'.name = "exit"
             /\ UNCHANGED <<ui_vars, threads, after_queue, conf_file, daemons>>
        ELSE /\ phase' = "running"
             /\ exit_code' = -1
             /\ last_event'.name = "start"
             /\ wallpapers' = Scanned[last_event'.dir]
             /\ status_label'.fmt \in {"Loaded {} wallpapers", "No wallpapers found"}
      ]_vars

\* the process has exited with code 1 from the constructor's initial state
C14_Witness ==
    /\ phase = "exited"
    /\ exit_code = 1
    /\ env = "missing"
    /\ status_label = Label("Ready", <<>>)

\* worker i has a success status waiting in the event queue
SuccessPosted(i) == \E cb \in StatusCallbacks(i) : cb.text = SuccessText

\* C15: within one apply worker the daemon steps happen in a fixed order:
\* the termination of the running daemon follows a zero exit code and comes
\* before the write of the configuration file, the write comes before the
\* launch, and a worker whose steps all succeeded registers the success
\* status only after it has issued the launch.
C15_DaemonStepsInOrder ==
    [][\A i \in 1..Len(threads) :
        /\ (~threads[i].killed /\ threads'[i].killed)
                => /\ ReturnedZero(threads[i])
                   /\ threads[i].wrote = <<>>
                   /\ threads[i].launched = <<>>
        /\ (threads[i].wrote = <<>> /\ threads'[i].wrote # <<>>)
                => /\ threads[i].killed
                   /\ threads[i].launched = <<>>
        /\ (threads[i].launched = <<>> /\ threads'[i].launched # <<>>)
                => /\ threads[i].killed
                   /\ threads[i].wrote # <<>>
                   /\ ~SuccessPosted(i)
        /\ (~SuccessPosted(i) /\ SuccessPosted(i)' /\ ~threads'[i].printed)
                => /\ threads[i].killed
                   /\ threads[i].wrote # <<>>
                   /\ threads[i].launched # <<>>
      ]_vars

\* a worker has gone through termination, write and launch, and the event
\* loop has shown its success status
C15_Witness ==
    /\ status_label = SuccessText
    /\ \E i \in 1..Len(threads) :
          /\ threads[i].pc = "done"
          /\ threads[i].killed
          /\ threads[i].wrote = ConfigContent(threads[i].path)
          /\ threads[i].launched = HyprpaperArgv
          /\ ~threads[i].printed
          /\ ~InFlight(i)

\* C16: every refresh replaces the wallpaper list with the result of a fresh
\* scan of the directory, whatever the list was; when the result is
\* non-empty it sets the current index to 0, whatever the index was, and
\* renders the first entry (on a successful decode the preview, the info
\* label and the counter are those of the first entry).
C16_RefreshRebuilds ==
    [][last_event'.name = "refresh" =>
        /\ wallpapers' = ScanWallpapers(last_event'.dir)
        /\ wallpapers' # <<>> =>
              /\ current_index' = 0
              /\ last_event'.shown # "none"
              /\ last_event'.shown = "ok" =>
                    /\ current_photo'.path = wallpapers'[1]
                    /\ info_label'.args[1] = wallpapers'[1]
                    /\ counter_label' =
                          Label("{}/{}", <<ToStr(1), ToStr(Len(wallpapers'))>>)
      ]_vars

\* a refresh has replaced a list in which another wallpaper had been applied
\* and shows the first entry of the new list
C16_Witness ==
    /\ last_event.name = "refresh"
    /\ last_event.shown = "ok"
    /\ current_index = 0
    /\ wallpapers # <<>>
    /\ current_photo.path = wallpapers[1]
    /\ threads # <<>>
    /\ \A k \in 1..Len(wallpapers) : wallpapers[k] # threads[1].path

\* C17: an apply worker works on the wallpaper that was selected when apply
\* was triggered: the path of a worker is the selection at its start and
\* never changes, whatever previous, next or refresh events are handled
\* meanwhile, and it is that path the worker hands to the theme generator and
\* writes to the configuration file it then launches the daemon with.
C17_WorkerKeepsItsPath ==
    [][\A i \in 1..Len(threads') :
        /\ IF i <= Len(threads)
           THEN threads'[i].path = threads[i].path
           ELSE threads'[i].path = wallpapers[current_index + 1]
        /\ threads'[i].rswall_arg \in {<<>>, PathStr(threads'[i].path)}
        /\ threads'[i].wrote \in {<<>>, ConfigContent(threads'[i].path)}
        /\ threads'[i].launched # <<>> =>
              /\ threads'[i].launched[3] = config_path
              /\ threads'[i].wrote = ConfigContent(threads'[i].path)
      ]_vars

\* a next event has just moved the selection away from the wallpaper of a
\* worker that has written its configuration and is about to launch
C17_Witness ==
    /\ last_event = Event("next", "ok")
    /\ \E i \in 1..Len(threads) :
          /\ threads[i].pc = "popen"
          /\ wallpapers[current_index + 1] # threads[i].path
          /\ conf_file = ConfigContent(threads[i].path)

\* C18: at most one wallpaper daemon launched by this program is alive at
\* any time, for any sequence and interleaving of apply operations.
C18_SingleDaemon == Cardinality(daemons) <= 1

\* the position and the preview shown are those of the current index
ShowsCurrent ==
    /\ counter_label =
          Label("{}/{}", <<ToStr(current_index + 1), ToStr(Len(wallpapers))>>)
    /\ current_photo.path = wallpapers[current_index + 1]

\* C19 as stated: after any previous, next or refresh event has been handled
\* with a non-empty wallpaper list, the counter label shows
\* (current index + 1)/(list length) and the preview is that of the file at
\* the current index.
C19_CounterAndPreviewCurrent ==
    (last_event.name \in {"prev", "next", "refresh"} /\ wallpapers # <<>>)
        => ShowsCurrent

\* C19 as amended: after any previous, next or refresh event with a
\* non-empty list whose render of the image at the current index succeeded,
\* the counter label shows (current index + 1)/(list length) and the preview
\* is that of the file at the current index; when the render failed, or the
\* event was a no-op at the boundary, the counter, the info label and the
\* preview are left as they were.
C19_ShownAfterRender ==
    [][(last_event'.name \in {"prev", "next", "refresh"} /\ wallpapers' # <<>>)
        => IF last_event'.shown = "ok"
           THEN ShowsCurrent'
           ELSE UNCHANGED <<counter_label, info_label, current_photo>>
      ]_vars

\* next has rendered the last of three wallpapers
C19_Witness ==
    /\ last_event = Event("next", "ok")
    /\ Len(wallpapers) = 3
    /\ current_index = 2
    /\ counter_label = Label("{}/{}", <<ToStr(3), ToStr(3)>>)
    /\ current_photo.path = wallpapers[3]

\* C20: apply on an empty wallpaper list is a no-op: it starts no worker,
\* registers no callback, touches neither the configuration file nor the
\* daemon, and leaves the apply control, the status and every other widget
\* as they were, also when a refresh emptied the list and left an index
\* other than 0 behind.
C20_ApplyOnEmptyIsNoOp ==
    [][(last_event'.name = "apply" /\ wallpapers = <<>>)
        => UNCHANGED <<phase, exit_code, ui_vars, threads, after_queue,
                       conf_file, daemons>>
      ]_vars

\* apply has been handled with an empty list and the index 1 left behind by
\* a refresh: no worker exists and the control is enabled
C20_Witness ==
    /\ last_event = Event("apply", "none")
    /\ wallpapers = <<>>
    /\ current_index = 1
    /\ threads = <<>>
    /\ apply_btn = "normal"
    /\ status_label = Label("No wallpapers found", <<>>)
====
